---- MODULE Spec2Model ----
(***************************************************************************)
(* Model of ec2-ip (src/main.rs): filter parsing, paginated instance       *)
(* fetching, aggregation into the instance map, rendering of the selector  *)
(* input, and printing of the selected instances' addresses.               *)
(*                                                                         *)
(* Strings that the program splits or concatenates are sequences of        *)
(* one-character strings; Option<T> is a sequence of length 0 (None) or    *)
(* 1 (Some).                                                               *)
(***************************************************************************)
EXTENDS Integers, Sequences, FiniteSets, TLC

\* ---------------------------------------------------------------- bounds
MaxLen == 2
MaxFilters == 2
MaxRegions == 2
MaxRequests == 2
MaxSel == 1

\* ---------------------------------------------------------------- Option
None == <<>>
Some(x) == <<x>>
IsSome(o) == Len(o) = 1
Unwrap(o) == o[1]

\* ---------------------------------------------------------------- strings
Alphabet == {"a", "=", ",", ";"}

RECURSIVE StringsUpTo(_)
StringsUpTo(n) ==
    IF n = 0 THEN {<<>>}
    ELSE LET shorter == StringsUpTo(n - 1)
         IN shorter \cup {Append(s, c) : s \in {t \in shorter : Len(t) = n - 1}, c \in Alphabet}

RECURSIVE SeqsUpTo(_, _)
SeqsUpTo(S, n) ==
    IF n = 0 THEN {<<>>}
    ELSE LET shorter == SeqsUpTo(S, n - 1)
         IN shorter \cup {Append(s, x) : s \in {t \in shorter : Len(t) = n - 1}, x \in S}

\* str::split: the segments between occurrences of sep; always at least one segment
RECURSIVE SplitFrom(_, _, _, _)
SplitFrom(s, sep, i, cur) ==
    IF i > Len(s) THEN <<cur>>
    ELSE IF s[i] = sep THEN <<cur>> \o SplitFrom(s, sep, i + 1, <<>>)
    ELSE SplitFrom(s, sep, i + 1, Append(cur, s[i]))

Split(s, sep) == SplitFrom(s, sep, 1, <<>>)

Range(f) == {f[x] : x \in DOMAIN f}

RECURSIVE Concat(_)
Concat(ss) == IF ss = <<>> THEN <<>> ELSE Head(ss) \o Concat(Tail(ss))

\* ---------------------------------------------------------------- filter parsing
InstanceStateName == <<"instance-state-name">>
Running == <<"running">>
RunningFilter == [name |-> Some(InstanceStateName), values |-> Some(<<Running>>)]

ParseClause(filter) ==
    LET parts == Split(filter, "=")
        name == Some(parts[1])
        rest == Tail(parts)
        values == IF Len(rest) > 0 THEN Some(Split(rest[1], ",")) ELSE None
    IN [name |-> name, values |-> values]

ParseFilterString(filter_string) ==
    LET filter_options == Split(filter_string, ";")
    IN <<RunningFilter>> \o [k \in 1..Len(filter_options) |-> ParseClause(filter_options[k])]

\* variant: raw strings that are empty produce no group
ParseFiltersSkipEmpty(all_filter_strings) ==
    IF IsSome(all_filter_strings)
    THEN LET kept == SelectSeq(Unwrap(all_filter_strings), LAMBDA fs : fs /= <<>>)
         IN [k \in 1..Len(kept) |-> ParseFilterString(kept[k])]
    ELSE <<<<RunningFilter>>>>

ParseFilters(all_filter_strings) ==
    IF IsSome(all_filter_strings)
    THEN [k \in 1..Len(Unwrap(all_filter_strings)) |-> ParseFilterString(Unwrap(all_filter_strings)[k])]
    ELSE <<<<RunningFilter>>>>

\* ---------------------------------------------------------------- provider data
IdWidth == 19

\* Instance records the provider may return (rusoto_ec2::Instance, the fields main reads)
Tag(k, v) == [key |-> k, value |-> v]
I1 == [instance_id |-> Some(<<"i", "1">>),
       tags |-> Some(<<Tag(Some(<<"Name">>), Some(<<"web1">>)), Tag(Some(<<"env">>), None)>>),
       public_ip_address |-> Some("54.0.0.1"), private_ip_address |-> Some("10.0.0.1")]
I2 == [instance_id |-> Some(<<"i", "2">>),
       tags |-> Some(<<Tag(Some(<<"env">>), Some(<<"prod">>)), Tag(Some(<<"Name">>), Some(<<"web2">>))>>),
       public_ip_address |-> None, private_ip_address |-> Some("10.0.0.2")]
I2u == [instance_id |-> Some(<<"i", "2">>),
        tags |-> Some(<<Tag(Some(<<"Name">>), Some(<<"web2-updated">>))>>),
        public_ip_address |-> Some("54.0.0.2"), private_ip_address |-> Some("10.0.0.2")]
I3 == [instance_id |-> Some(<<"i", "3">>),
       tags |-> Some(<<Tag(Some(<<"Name">>), Some(<<"db", "\n", "1">>))>>),
       public_ip_address |-> Some("54.0.0.3"), private_ip_address |-> None]
INoId == [instance_id |-> None, tags |-> None,
          public_ip_address |-> None, private_ip_address |-> Some("10.0.0.9")]

Reservation(is) == [instances |-> is]
PageBodies == {None,
               Some(<<Reservation(Some(<<I1, I2>>)), Reservation(None)>>),
               Some(<<Reservation(Some(<<I2u>>)), Reservation(Some(<<INoId, I3>>))>>)}
Tokens == {"t1", "t2"}
Responses == [reservations : PageBodies, next_token : {None} \cup {Some(t) : t \in Tokens}]

\* Region::from_str accepts the provider's region names only
ValidRegions == {"us-east-1"}
RegionNames == {"us-east-1", "nowhere"}

\* ---------------------------------------------------------------- state
VARIABLES
    options,          \* clap matches: region, filter, display_tag, public_ip
    pc,               \* position in main / get_instances
    filter_groups,    \* Vec<Vec<Filter>>
    all_instances,    \* HashMap<String, Instance>
    ri, fi,           \* position of the region loop and of the filter-group loop
    input,            \* DescribeInstancesRequest of the running get_instances
    first,            \* get_instances: first
    region_instances, \* get_instances: accumulated instances
    result,           \* value returned by get_instances
    instances,        \* all_instances.values(): the iteration order of the map
    display_tags,
    skim_input,
    selected_items,
    si,               \* position of the print loop in selected_items
    stdout,           \* what print! has written, one element per call
    panicked,         \* None, or Some(message) once the process has panicked
    log               \* history: provider requests with their responses, region failures, selector start

vars == <<options, pc, filter_groups, all_instances, ri, fi, input, first, region_instances,
          result, instances, display_tags, skim_input, selected_items, si, stdout, panicked, log>>

StartState(opts) ==
    /\ options = opts
    /\ pc = "start"
    /\ filter_groups = <<>>
    /\ all_instances = <<>>
    /\ ri = 1
    /\ fi = 1
    /\ input = [filters |-> None, next_token |-> None]
    /\ first = TRUE
    /\ region_instances = <<>>
    /\ result = <<>>
    /\ instances = <<>>
    /\ display_tags = <<>>
    /\ skim_input = <<>>
    /\ selected_items = <<>>
    /\ si = 1
    /\ stdout = <<>>
    /\ panicked = None
    /\ log = <<>>

SampleFilterStrings == {<<"a", "=", "a">>}
RegionArgs == SeqsUpTo(RegionNames, MaxRegions) \ {<<>>}
FilterArgs(strings) == {None} \cup {Some(fs) : fs \in SeqsUpTo(strings, MaxFilters) \ {<<>>}}
DisplayTagArgs == {None, Some(<<<<"env">>>>)}

Init ==
    \E r \in RegionArgs, f \in FilterArgs(SampleFilterStrings), d \in DisplayTagArgs, p \in BOOLEAN :
        StartState([region |-> r, filter |-> f, display_tag |-> d, public_ip |-> p])

InitParse ==
    \E f \in FilterArgs(StringsUpTo(MaxLen)) :
        StartState([region |-> <<"us-east-1">>, filter |-> f, display_tag |-> None, public_ip |-> FALSE])

\* ---------------------------------------------------------------- main: filter groups
BuildFilterGroups ==
    /\ pc = "start"
    /\ filter_groups' = ParseFilters(options.filter)
    /\ pc' = "aggregate"
    /\ UNCHANGED <<options, all_instances, ri, fi, input, first, region_instances, result, instances,
                   display_tags, skim_input, selected_items, si, stdout, panicked, log>>

NextParse == BuildFilterGroups
SpecParse == InitParse /\ [][NextParse]_vars

\* ---------------------------------------------------------------- get_instances
Event(ev, token, resp) == [ev |-> ev, r |-> ri, f |-> fi, token |-> token, resp |-> resp]
Requests == SelectSeq(log, LAMBDA e : e.ev = "request")

RegionParse(region_name) == IF region_name \in ValidRegions THEN Some(region_name) ELSE None

\* variant: a plain while loop on the token, without the first-iteration flag
LoopCondNoFirst(is_first, next_token) == IsSome(next_token)

LoopCond(is_first, next_token) == is_first \/ IsSome(next_token)

RECURSIVE FlattenReservations(_)
FlattenReservations(reservations) ==
    IF reservations = <<>> THEN <<>>
    ELSE (IF IsSome(Head(reservations).instances) THEN Unwrap(Head(reservations).instances) ELSE <<>>)
         \o FlattenReservations(Tail(reservations))

FlattenPage(reservations) ==
    IF IsSome(reservations) THEN FlattenReservations(Unwrap(reservations)) ELSE <<>>

CallGetInstances ==
    /\ pc = "aggregate"
    /\ IsSome(RegionParse(options.region[ri]))
    /\ input' = [filters |-> Some(filter_groups[fi]), next_token |-> None]
    /\ first' = TRUE
    /\ region_instances' = <<>>
    /\ pc' = "paging"
    /\ UNCHANGED <<options, filter_groups, all_instances, ri, fi, result, instances, display_tags,
                   skim_input, selected_items, si, stdout, panicked, log>>

InvalidRegion ==
    /\ pc = "aggregate"
    /\ ~IsSome(RegionParse(options.region[ri]))
    /\ log' = Append(log, Event("invalid_region", None, None))
    /\ panicked' = Some("Invalid region name")
    /\ pc' = "panicked"
    /\ UNCHANGED <<options, filter_groups, all_instances, ri, fi, input, first, region_instances,
                   result, instances, display_tags, skim_input, selected_items, si, stdout>>

DescribeInstancesOk ==
    /\ pc = "paging"
    /\ LoopCond(first, input.next_token)
    /\ Len(Requests) < MaxRequests
    /\ \E resp \in Responses :
        /\ log' = Append(log, Event("request", input.next_token, Some(resp)))
        /\ region_instances' = region_instances \o FlattenPage(resp.reservations)
        /\ input' = [input EXCEPT !.next_token = resp.next_token]
    /\ first' = FALSE
    /\ UNCHANGED <<options, pc, filter_groups, all_instances, ri, fi, result, instances, display_tags,
                   skim_input, selected_items, si, stdout, panicked>>

\* variant: a failed page ends the fetch with what was accumulated so far
DescribeInstancesErrSwallowed ==
    /\ pc = "paging"
    /\ LoopCond(first, input.next_token)
    /\ Len(Requests) < MaxRequests
    /\ log' = Append(log, Event("request", input.next_token, None))
    /\ result' = region_instances
    /\ pc' = "merge"
    /\ UNCHANGED <<options, filter_groups, all_instances, ri, fi, input, first, region_instances,
                   instances, display_tags, skim_input, selected_items, si, stdout, panicked>>

DescribeInstancesErr ==
    /\ pc = "paging"
    /\ LoopCond(first, input.next_token)
    /\ Len(Requests) < MaxRequests
    /\ log' = Append(log, Event("request", input.next_token, None))
    /\ panicked' = Some("QueryFailed")
    /\ pc' = "panicked"
    /\ UNCHANGED <<options, filter_groups, all_instances, ri, fi, input, first, region_instances,
                   result, instances, display_tags, skim_input, selected_items, si, stdout>>

ReturnInstances ==
    /\ pc = "paging"
    /\ ~LoopCond(first, input.next_token)
    /\ result' = region_instances
    /\ pc' = "merge"
    /\ UNCHANGED <<options, filter_groups, all_instances, ri, fi, input, first, region_instances,
                   instances, display_tags, skim_input, selected_items, si, stdout, panicked, log>>

\* ---------------------------------------------------------------- main: aggregation
\* variant: an identity already in the map keeps its record
InsertKeepFirst(map, instance) ==
    IF IsSome(instance.instance_id)
    THEN map @@ (Unwrap(instance.instance_id) :> instance)
    ELSE map

Insert(map, instance) ==
    IF IsSome(instance.instance_id)
    THEN (Unwrap(instance.instance_id) :> instance) @@ map
    ELSE map

RECURSIVE InsertAll(_, _)
InsertAll(map, list) ==
    IF list = <<>> THEN map ELSE InsertAll(Insert(map, Head(list)), Tail(list))

\* variant: the loops nested the other way round
NextPairGroupMajor(r, f) ==
    IF r < Len(options.region) THEN <<r + 1, f>>
    ELSE IF f < Len(filter_groups) THEN <<1, f + 1>>
    ELSE <<0, 0>>

\* the pair after (r, f) in the nested loops; <<0, 0>> when the loops are over
NextPair(r, f) ==
    IF f < Len(filter_groups) THEN <<r, f + 1>>
    ELSE IF r < Len(options.region) THEN <<r + 1, 1>>
    ELSE <<0, 0>>

MergeInstances ==
    /\ pc = "merge"
    /\ all_instances' = InsertAll(all_instances, result)
    /\ LET next == NextPair(ri, fi)
       IN IF next = <<0, 0>>
          THEN pc' = "render" /\ UNCHANGED <<ri, fi>>
          ELSE pc' = "aggregate" /\ ri' = next[1] /\ fi' = next[2]
    /\ UNCHANGED <<options, filter_groups, input, first, region_instances, result, instances,
                   display_tags, skim_input, selected_items, si, stdout, panicked, log>>

\* ---------------------------------------------------------------- main: rendering
Orders(S) == {o \in [1..Cardinality(S) -> S] : \A i, j \in 1..Cardinality(S) : o[i] = o[j] => i = j}

RECURSIVE Spaces(_)
Spaces(n) == IF n <= 0 THEN <<>> ELSE <<" ">> \o Spaces(n - 1)

\* format!("{:19}", s): left-aligned, padded with spaces to the width, never truncated
Pad(s, width) == s \o Spaces(width - Len(s))

RECURSIVE TagMap(_, _)
TagMap(map, tags) ==
    IF tags = <<>> THEN map
    ELSE LET tag == Head(tags)
         IN TagMap(IF IsSome(tag.key) /\ IsSome(tag.value)
                   THEN (Unwrap(tag.key) :> Unwrap(tag.value)) @@ map
                   ELSE map,
                   Tail(tags))

RECURSIVE RenderTags(_, _)
RenderTags(tag_map, tags) ==
    IF tags = <<>> THEN <<>>
    ELSE (IF Head(tags) \in DOMAIN tag_map
          THEN Head(tags) \o <<"=">> \o tag_map[Head(tags)] \o <<" ">>
          ELSE <<>>)
         \o RenderTags(tag_map, Tail(tags))

RenderInstance(instance, dtags) ==
    (IF IsSome(instance.instance_id) THEN Pad(Unwrap(instance.instance_id), IdWidth) \o <<":", " ">> ELSE <<>>)
    \o (IF IsSome(instance.tags) THEN RenderTags(TagMap(<<>>, Unwrap(instance.tags)), dtags) ELSE <<>>)
    \o <<"\n">>

DisplayTags(extra) == <<<<"Name">>>> \o (IF IsSome(extra) THEN Unwrap(extra) ELSE <<>>)

Render ==
    /\ pc = "render"
    /\ \E order \in Orders(DOMAIN all_instances) :
        instances' = [k \in 1..Len(order) |-> all_instances[order[k]]]
    /\ display_tags' = DisplayTags(options.display_tag)
    /\ skim_input' = Concat([k \in 1..Len(instances') |-> RenderInstance(instances'[k], display_tags')])
    /\ pc' = "select"
    /\ UNCHANGED <<options, filter_groups, all_instances, ri, fi, input, first, region_instances,
                   result, selected_items, si, stdout, panicked, log>>

\* ---------------------------------------------------------------- main: selection and output
\* the selector reads its input line by line: a final newline ends the last line
SkimLines(text) ==
    LET parts == Split(text, "\n")
    IN IF parts[Len(parts)] = <<>> THEN SubSeq(parts, 1, Len(parts) - 1) ELSE parts

SkimOutputs(text) ==
    {None} \cup {Some([selected_items |-> sel]) : sel \in SeqsUpTo(0..(Len(SkimLines(text)) - 1), MaxSel)}

\* variant: no selector result falls back to the first line
SelectedItemsDefaultFirst(out) == IF IsSome(out) THEN Unwrap(out).selected_items ELSE <<0>>

SelectedItems(out) == IF IsSome(out) THEN Unwrap(out).selected_items ELSE <<>>

RunSkim ==
    /\ pc = "select"
    /\ \E out \in SkimOutputs(skim_input) :
        /\ selected_items' = SelectedItems(out)
        /\ log' = Append(log, Event("skim", None, out))
    /\ si' = 1
    /\ pc' = "print"
    /\ UNCHANGED <<options, filter_groups, all_instances, ri, fi, input, first, region_instances,
                   result, instances, display_tags, skim_input, stdout, panicked>>

\* Iterator::nth, counting from 0
Nth(list, n) == IF n + 1 <= Len(list) THEN Some(list[n + 1]) ELSE None

Address(instance) ==
    IF options.public_ip THEN instance.public_ip_address ELSE instance.private_ip_address

PrintAddress ==
    /\ pc = "print"
    /\ si <= Len(selected_items)
    /\ IsSome(Nth(instances, selected_items[si]))
    /\ IsSome(Address(Unwrap(Nth(instances, selected_items[si]))))
    /\ stdout' = Append(stdout, Unwrap(Address(Unwrap(Nth(instances, selected_items[si])))))
    /\ si' = si + 1
    /\ UNCHANGED <<options, pc, filter_groups, all_instances, ri, fi, input, first, region_instances,
                   result, instances, display_tags, skim_input, selected_items, panicked, log>>

PrintUnwrapNone ==
    /\ pc = "print"
    /\ si <= Len(selected_items)
    /\ IsSome(Nth(instances, selected_items[si]))
    /\ ~IsSome(Address(Unwrap(Nth(instances, selected_items[si]))))
    /\ panicked' = Some("unwrap on None")
    /\ pc' = "panicked"
    /\ UNCHANGED <<options, filter_groups, all_instances, ri, fi, input, first, region_instances,
                   result, instances, display_tags, skim_input, selected_items, si, stdout, log>>

SkipItem ==
    /\ pc = "print"
    /\ si <= Len(selected_items)
    /\ ~IsSome(Nth(instances, selected_items[si]))
    /\ si' = si + 1
    /\ UNCHANGED <<options, pc, filter_groups, all_instances, ri, fi, input, first, region_instances,
                   result, instances, display_tags, skim_input, selected_items, stdout, panicked, log>>

Exit ==
    /\ pc = "print"
    /\ si > Len(selected_items)
    /\ pc' = "done"
    /\ UNCHANGED <<options, filter_groups, all_instances, ri, fi, input, first, region_instances,
                   result, instances, display_tags, skim_input, selected_items, si, stdout, panicked, log>>

Next ==
    \/ BuildFilterGroups
    \/ CallGetInstances
    \/ InvalidRegion
    \/ DescribeInstancesOk
    \/ DescribeInstancesErr
    \/ ReturnInstances
    \/ MergeInstances
    \/ Render
    \/ RunSkim
    \/ PrintAddress
    \/ PrintUnwrapNone
    \/ SkipItem
    \/ Exit

Spec == Init /\ [][Next]_vars

\* ================================================================ properties
SkimStarted == \E k \in 1..Len(log) : log[k].ev = "skim"
SamePair(a, b) == a.r = b.r /\ a.f = b.f

\* the instances of one provider response, reservation by reservation
PageInstances(resp) ==
    IF resp.reservations = None THEN <<>>
    ELSE LET rs == Unwrap(resp.reservations)
         IN Concat([k \in 1..Len(rs) |-> IF rs[k].instances = None THEN <<>> ELSE Unwrap(rs[k].instances)])

\* C1: a fetch sends its first request without a token, sends request k+1 with exactly
\* the token of response k, sends nothing after a response without a token (also when
\* that is the first response), and returns the concatenation, in page order, of the
\* instances of every page flattened over its reservations.
C1_Pagination ==
    LET reqs == Requests
        mine == SelectSeq(reqs, LAMBDA e : e.r = ri /\ e.f = fi)
    IN /\ \A k \in 1..Len(reqs) :
            LET starts == k = 1 \/ ~SamePair(reqs[k - 1], reqs[k])
            IN /\ starts => reqs[k].token = None
               /\ ~starts => /\ IsSome(reqs[k - 1].resp)
                             /\ IsSome(Unwrap(reqs[k - 1].resp).next_token)
                             /\ reqs[k].token = Unwrap(reqs[k - 1].resp).next_token
       /\ \A k \in 1..Len(reqs) :
            (IsSome(reqs[k].resp) /\ Unwrap(reqs[k].resp).next_token = None)
                => \A j \in (k + 1)..Len(reqs) : ~SamePair(reqs[k], reqs[j])
       /\ pc = "merge" =>
            /\ Len(mine) >= 1
            /\ Unwrap(mine[Len(mine)].resp).next_token = None
            /\ result = Concat([k \in 1..Len(mine) |-> PageInstances(Unwrap(mine[k].resp))])

\* a fetch of two pages, both with instances, has returned
C1_Witness ==
    /\ pc = "merge"
    /\ Len(Requests) = 2
    /\ SamePair(Requests[1], Requests[2])
    /\ Len(result) > Len(PageInstances(Unwrap(Requests[1].resp)))
    /\ PageInstances(Unwrap(Requests[1].resp)) /= <<>>

\* every record returned by any fetch, in aggregation order
Fetched ==
    LET reqs == Requests
    IN Concat([k \in 1..Len(reqs) |-> IF IsSome(reqs[k].resp) THEN PageInstances(Unwrap(reqs[k].resp)) ELSE <<>>])
Aggregated == pc \in {"render", "select", "print", "done"} \/ (pc = "panicked" /\ SkimStarted)

\* C2: after aggregation the map holds exactly one record per identity returned by any
\* fetch, and it is the record of the last position, in aggregation order, with that identity.
C2_LastFetchWins ==
    Aggregated =>
        LET fetched == Fetched
            withId == {k \in 1..Len(fetched) : IsSome(fetched[k].instance_id)}
        IN /\ DOMAIN all_instances = {Unwrap(fetched[k].instance_id) : k \in withId}
           /\ \A k \in withId :
                (\A j \in withId : j > k => fetched[j].instance_id /= fetched[k].instance_id)
                    => all_instances[Unwrap(fetched[k].instance_id)] = fetched[k]

\* two fetches returned different records of one identity, alone and beside other identities
C2_Witness ==
    /\ Aggregated
    /\ LET fetched == Fetched
       IN \E j, k \in 1..Len(fetched) :
            /\ j < k
            /\ IsSome(fetched[j].instance_id)
            /\ fetched[j].instance_id = fetched[k].instance_id
            /\ fetched[j] /= fetched[k]
    /\ Cardinality(DOMAIN all_instances) >= 2
    /\ ~SamePair(Requests[1], Requests[Len(Requests)])

FetchFailed ==
    \E k \in 1..Len(log) :
        \/ log[k].ev = "invalid_region"
        \/ log[k].ev = "request" /\ log[k].resp = None

\* C3: once a fetch has failed (invalid region, or a provider error on any page) the run
\* is aborted: the selector is never started, nothing is rendered and nothing is written.
C3_FailFast ==
    FetchFailed =>
        /\ pc = "panicked"
        /\ IsSome(panicked)
        /\ ~SkimStarted
        /\ instances = <<>>
        /\ skim_input = <<>>
        /\ selected_items = <<>>
        /\ stdout = <<>>

\* a later page of a later pair failed after an earlier pair had been merged
C3_Witness ==
    /\ FetchFailed
    /\ all_instances /= <<>>
    /\ log[Len(log)].ev = "request"
    /\ Len(log) >= 2

\* the selector's result, once it has run
SkimOut == log[CHOOSE k \in 1..Len(log) : log[k].ev = "skim"].resp
NoSelection == SkimStarted /\ (SkimOut = None \/ Unwrap(SkimOut).selected_items = <<>>)

\* C9: when the selector returns no selected index (no result at all, or an empty
\* selection) nothing is written and the process does not fail.
C9_EmptySelection ==
    NoSelection => stdout = <<>> /\ panicked = None /\ pc \in {"print", "done"}

\* the process ended after the selector, shown some lines, returned nothing
C9_Witness ==
    /\ NoSelection
    /\ pc = "done"
    /\ instances /= <<>>
    /\ SkimOut = None

\* the pair that region-major order visits after pair (r, f)
Successor(e) ==
    IF e.f < Len(filter_groups) THEN [r |-> e.r, f |-> e.f + 1] ELSE [r |-> e.r + 1, f |-> 1]

C10_Order ==
    LET reqs == Requests
    IN /\ \A k \in 1..Len(reqs) :
            IF k = 1 THEN reqs[k].r = 1 /\ reqs[k].f = 1
            ELSE \/ SamePair(reqs[k - 1], reqs[k])
                 \/ /\ SamePair(Successor(reqs[k - 1]), reqs[k])
                    /\ Unwrap(reqs[k - 1].resp).next_token = None
       /\ SkimStarted =>
            /\ log[Len(log)].ev = "skim"
            /\ reqs /= <<>>
            /\ reqs[Len(reqs)].r = Len(options.region)
            /\ reqs[Len(reqs)].f = Len(filter_groups)
            /\ Unwrap(reqs[Len(reqs)].resp).next_token = None
            /\ \A x \in {y \in Range(PageInstances(Unwrap(reqs[Len(reqs)].resp))) : IsSome(y.instance_id)} :
                    Unwrap(x.instance_id) \in DOMAIN all_instances

C10_Frozen == pc \notin {"start", "aggregate", "paging", "merge"} => all_instances' = all_instances

\* C10: requests are issued pair by pair in region-major order, a pair's pages all before
\* the next pair's first page; the selector starts only after the last page of the last
\* pair is merged; the map does not change from the start of rendering on.
C10_Sequential == [](C10_Order) /\ [][C10_Frozen]_vars

\* the process ended after the selector ran on the instances of two pairs fetched in turn
C10_Witness ==
    /\ pc = "done"
    /\ Len(Requests) >= 2
    /\ ~SamePair(Requests[1], Requests[2])
    /\ all_instances /= <<>>

\* ---------------------------------------------------------------- filter parsing
Count(str, c) == Cardinality({k \in 1..Len(str) : str[k] = c})
FirstIndex(str, c) == CHOOSE k \in 1..Len(str) : str[k] = c /\ \A j \in 1..(k - 1) : str[j] /= c
IsPrefix(a, b) == Len(a) <= Len(b) /\ SubSeq(b, 1, Len(a)) = a

\* C6: one filter group per raw string, in input order, or one group when no raw string
\* is given; every group starts with instance-state-name = [running]; with no raw string
\* the single group holds that filter only.
C6_GroupPerString ==
    pc = "aggregate" =>
        LET implicit == [name |-> <<<<"instance-state-name">>>>, values |-> <<<<<<"running">>>>>>]
        IN IF options.filter = None
           THEN filter_groups = <<<<implicit>>>>
           ELSE LET raw == Unwrap(options.filter)
                IN /\ Len(filter_groups) = Len(raw)
                   /\ \A k \in 1..Len(raw) :
                        /\ filter_groups[k][1] = implicit
                        /\ Len(filter_groups[k]) = 2 + Count(raw[k], ";")
                        /\ IsPrefix(Unwrap(filter_groups[k][2].name), raw[k])

\* two raw strings, the first empty, the second with an empty clause
C6_Witness ==
    /\ pc = "aggregate"
    /\ options.filter = Some(<<<<>>, <<"a", ";">>>>)
    /\ Len(filter_groups) = 2

\* the filter the claim describes for one clause
ClauseAsClaimed(clause) ==
    IF Count(clause, "=") = 0
    THEN [name |-> Some(clause), values |-> None]
    ELSE LET eq == FirstIndex(clause, "=")
         IN [name |-> Some(SubSeq(clause, 1, eq - 1)),
             values |-> Some(Split(SubSeq(clause, eq + 1, Len(clause)), ","))]

\* C7: in a clause the first "=" splits the name from the value list: the name is the
\* text before it, the values are everything after it split on commas (a later "=" stays
\* inside a value); a clause without "=" is a name with an absent value list.
C7_FirstEqualsSplits ==
    (pc = "aggregate" /\ options.filter /= None) =>
        \A k \in 1..Len(filter_groups) :
            LET clauses == Split(Unwrap(options.filter)[k], ";")
            IN \A j \in 1..Len(clauses) : filter_groups[k][j + 1] = ClauseAsClaimed(clauses[j])

\* ---------------------------------------------------------------- presentation
Rendered == pc \in {"select", "print", "done"} \/ (pc = "panicked" /\ SkimStarted)

\* the value of the tag named key on the record, when the record has such a tag
TagValue(instance, key) ==
    IF instance.tags = None THEN None
    ELSE LET tags == Unwrap(instance.tags)
             at == {k \in 1..Len(tags) : tags[k].key = Some(key) /\ tags[k].value /= None}
         IN IF at = {} THEN None ELSE tags[CHOOSE k \in at : \A j \in at : j <= k].value

LineAsClaimed(instance) ==
    Pad(Unwrap(instance.instance_id), IdWidth) \o <<":", " ">>
    \o Concat([k \in 1..Len(display_tags) |->
                 IF TagValue(instance, display_tags[k]) = None THEN <<>>
                 ELSE display_tags[k] \o <<"=">> \o Unwrap(TagValue(instance, display_tags[k])) \o <<" ">>])

\* C4: the lines the selector counts in its input and the records index resolution walks
\* have the same length and order: line i is the rendering of record i, its identity
\* followed by tag=value for the display tags present on it, in display-tag order.
C4_LinesMatchTable ==
    Rendered =>
        LET lines == SkimLines(skim_input)
        IN /\ Len(lines) = Len(instances)
           /\ \A i \in 1..Len(instances) :
                /\ Nth(instances, i - 1) = Some(instances[i])
                /\ lines[i] = LineAsClaimed(instances[i])

\* C5: an index outside the table makes index resolution fail: the run is aborted with
\* IndexOutOfRange and does not continue past that index.
C5_OutOfRangeAborts ==
    Rendered =>
        \A k \in 1..Len(selected_items) :
            (k < si /\ selected_items[k] >= Len(instances)) => panicked = Some("IndexOutOfRange")

\* C8: for in-range selections the process writes exactly the selected records' addresses
\* (public with --public-ip, private otherwise), in selection order, and ends normally,
\* whichever of its optional addresses a record has.
C8_AddressesWritten ==
    (Rendered /\ \A k \in 1..Len(selected_items) : selected_items[k] < Len(instances)) =>
        /\ panicked = None
        /\ pc = "done" =>
            /\ Len(stdout) = Len(selected_items)
            /\ \A k \in 1..Len(selected_items) :
                    Some(stdout[k]) = Address(instances[selected_items[k] + 1])

====
